---- MODULE Spec2Model ----
(***************************************************************************)
(* TikTokHashtagScraper (scraper_2.py): one scraping session.              *)
(*                                                                         *)
(* The browser is the environment: what a navigation, a DOM query or a     *)
(* script evaluation returns (or whether it raises) is chosen with \E in   *)
(* the action that performs the call.  Python dicts are TLA+ records       *)
(* (functions on strings), so a missing key is a key outside DOMAIN; JSON  *)
(* values of the embedded payload are tagged records (JInt, JNull, ...).   *)
(* Strings whose content the code inspects (hrefs, urls, scope keys) are   *)
(* sequences of tokens.                                                    *)
(*                                                                         *)
(* Spec is the whole session.  ScrollSpec is the scroll loop alone, with   *)
(* fairness, on a feed whose height stops changing, and EndlessSpec the    *)
(* same loop on a feed whose height never stops changing.  HarvestSpec is  *)
(* the comment harvest of one visit, with fairness.  CountSpec,            *)
(* CommentSpec and JsonSpec call _parse_count, _extract_comment_data and   *)
(* _extract_from_json on their own, with one argument drawn from a bounded *)
(* set.                                                                    *)
(***************************************************************************)
EXTENDS Integers, Sequences, FiniteSets, TLC

\* ------------------------------------------------------------------ bounds
MaxVideos == 2        \* largest max_videos a caller passes
MaxElements == 2      \* challenge-item nodes rendered in one scroll round
MaxEntries == 2       \* entries of the payload's item list
MaxCommentsArg == 2   \* largest max_comments a caller passes
MaxCommentNodes == 2  \* comment nodes one query returns
MaxGrowingRounds == 2 \* rounds in which a finite feed's height still changes
MaxIntDigits == 2     \* digits before the point of a count text
MaxFracDigits == 1    \* digits after the point of a count text
MaxScripts == 2       \* script elements of a page

\* ------------------------------------------------------- program constants
max_scroll_attempts == 20
max_scroll == 5

\* ------------------------------------------------------------- JSON values
JNull == [t |-> "null"]
JInt(n) == [t |-> "int", v |-> n]
JStr(s) == [t |-> "str", v |-> s]
JBool(b) == [t |-> "bool", v |-> b]
JDict(d) == [t |-> "dict", d |-> d]
JList(l) == [t |-> "list", l |-> l]

\* Python's None as the value of an Optional[...] result
None == JNull

\* dict.get(key, default)
Get(d, key, default) == IF key \in DOMAIN d THEN d[key] ELSE default

\* ------------------------------------------------------------ urls, hrefs
Host == "https://www.tiktok.com"
Ids == {"1", "2"}

\* the hrefs a feed node's link can carry: site-relative or absolute
RelHref(id) == <<"/@", "u", "/video/", id>>
AbsHref(id) == <<Host>> \o RelHref(id)
Hrefs == {RelHref(id) : id \in Ids} \cup {AbsHref(id) : id \in Ids}

\* url.startswith('http')
StartsWithHttp(url) == Len(url) > 0 /\ url[1] = Host

\* re.search(r'/video/(\d+)', url): group(1), or None
VideoIdOf(url) ==
    LET Match(i) == url[i] = "/video/" /\ url[i + 1] \in Ids
        hits == {i \in 1..(Len(url) - 1) : Match(i)}
    IN IF hits = {} THEN None
       ELSE JStr(url[(CHOOSE i \in hits : \A j \in hits : i <= j) + 1])

ZeroStats == [views |-> JInt(0), likes |-> JInt(0), comments |-> JInt(0), shares |-> JInt(0)]

\* ------------------------------------------------- the embedded payload
\* A dict the code iterates is a sequence of [k, v] pairs in insertion order
\* (JObj); a dict the code only reads by key is a record (JDict).
JObj(pairs) == [t |-> "obj", pairs |-> pairs]
EmptyDict == [x \in {} |-> JNull]

IsDict(j) == j.t \in {"dict", "obj"}

\* str(x) inside an f-string
Str(j) == IF j.t = "str" THEN j.v ELSE IF j.t = "null" THEN "None" ELSE "?"

ChallengeKey == <<"webapp.", "challenge-detail">>
ScopeKeys == {<<"webapp.", "itemList">>, <<"itemModule">>, <<"seo.", "abtest">>}

\* 'itemList' in str(key) or 'itemModule' in str(key)
IsItemKey(key) == \E i \in 1..Len(key) : key[i] \in {"itemList", "itemModule"}

GoodStats == JDict([playCount |-> JInt(5), diggCount |-> JInt(1),
                    commentCount |-> JInt(1), shareCount |-> JInt(0)])
GoodEntry(id) ==
    JDict([id |-> JStr(id), desc |-> JStr("d"),
           author |-> JDict([uniqueId |-> JStr("u")]),
           stats |-> GoodStats,
           video |-> JDict([duration |-> JInt(9)])])
\* the entry shapes a payload's item list holds
EntryShapes ==
    {GoodEntry(id) : id \in Ids} \cup
    { JDict([id |-> JStr("1"), desc |-> JStr("d"),                 \* no 'stats'
             author |-> JDict([uniqueId |-> JStr("u")]),
             video |-> JDict([duration |-> JInt(9)])]),
      JDict([id |-> JStr("2"), desc |-> JStr("d"),                 \* no 'video'
             author |-> JDict([uniqueId |-> JStr("u")]),
             stats |-> GoodStats]),
      JDict([id |-> JStr("2"), author |-> JNull,                   \* author: null
             stats |-> GoodStats,
             video |-> JDict([duration |-> JInt(9)])]),
      JStr("x") }                                                  \* not a dict

SeqsUpTo(S, n) == UNION {[1..k -> S] : k \in 0..n}

\* item_id -> item_data, in insertion order
ItemDicts ==
    {JObj([i \in 1..Len(es) |-> [k \in {"k", "v"} |->
              IF k = "k" THEN JInt(i) ELSE es[i]]]) : es \in SeqsUpTo(EntryShapes, MaxEntries)}

ChallengeValues ==
    { JNull,
      JDict(EmptyDict),
      JDict([challengeInfo |-> JDict(EmptyDict)]),
      JDict([challengeInfo |-> JDict([challenge |-> JDict([id |-> JStr("9"), title |-> JStr("tag")])])]) }

Scopes ==
    {JNull} \cup
    {JObj(<<[k |-> key, v |-> items]>>) : key \in ScopeKeys, items \in ItemDicts \cup {JList(<<>>)}} \cup
    {JObj(<<[k |-> ChallengeKey, v |-> ch], [k |-> key, v |-> items]>>) :
        ch \in ChallengeValues, key \in ScopeKeys, items \in ItemDicts \cup {JList(<<>>)}}

KnownScriptIds == {"__UNIVERSAL_DATA_FOR_REHYDRATION__", "SIGI_STATE"}
\* the payload of a feed with one well-formed video
OneVideoData ==
    JDict("__DEFAULT_SCOPE__" :>
            JObj(<<[k |-> <<"itemModule">>,
                    v |-> JObj(<<[k |-> JInt(1), v |-> GoodEntry("1")]>>)]>>))
\* the script elements of a page: up to MaxScripts of them, each with a known
\* id or another one, and no text, text that is no JSON, or a payload
ScriptTexts == {[kind |-> "empty"], [kind |-> "invalid"], [kind |-> "json", data |-> OneVideoData]}
Scripts == [id : KnownScriptIds \cup {"other"}, text : ScriptTexts]
Documents == SeqsUpTo(Scripts, MaxScripts)

\* what the page's script lookup returns: null, '' , text that is no JSON,
\* or the text of a JSON document (held parsed)
ScriptData ==
    {[kind |-> "null"], [kind |-> "empty"], [kind |-> "invalid"]} \cup
    {[kind |-> "json", data |-> d] :
        d \in {JNull, JDict(EmptyDict)} \cup {JDict("__DEFAULT_SCOPE__" :> sc) : sc \in Scopes}}

\* lookup in a JObj by key
HasKey(obj, key) == \E i \in 1..Len(obj.pairs) : obj.pairs[i].k = key
Lookup(obj, key) == obj.pairs[CHOOSE i \in 1..Len(obj.pairs) : obj.pairs[i].k = key].v

\* _parse_video_item: the accesses that raise (x.get on a value that is no dict)
ParseVideoItemRaises(item) ==
    \/ ~IsDict(Get(item, "author", JDict(EmptyDict)))
    \/ ~IsDict(Get(item, "stats", JDict(EmptyDict)))
    \/ ~IsDict(Get(item, "video", JDict(EmptyDict)))
    \/ ~IsDict(Get(item, "music", JDict(EmptyDict)))
    \/ Get(item, "challenges", JList(<<>>)).t # "list"

\* _parse_video_item: the record built from one entry, or None
\* (created_at, avatar, cover, download_url, play_url and the music fields
\* are read with the same .get pattern as the fields kept here)
ParseVideoItem(item) ==
    IF ParseVideoItemRaises(item) THEN None
    ELSE LET author == Get(item, "author", JDict(EmptyDict)).d
             stats == Get(item, "stats", JDict(EmptyDict)).d
             video == Get(item, "video", JDict(EmptyDict)).d
         IN [id |-> Get(item, "id", None),
             description |-> Get(item, "desc", JStr("")),
             author |-> [username |-> Get(author, "uniqueId", None),
                         verified |-> Get(author, "verified", JBool(FALSE))],
             stats |-> [views |-> Get(stats, "playCount", JInt(0)),
                        likes |-> Get(stats, "diggCount", JInt(0)),
                        comments |-> Get(stats, "commentCount", JInt(0)),
                        shares |-> Get(stats, "shareCount", JInt(0))],
             video |-> [duration |-> Get(video, "duration", None)],
             url |-> <<Host, "/@", Str(Get(author, "uniqueId", None)),
                       "/video/", Str(Get(item, "id", None))>>]

\* the inner loop of _parse_hashtag_json over one item dict
RECURSIVE ScanItems(_)
ScanItems(pairs) ==
    IF pairs = <<>> THEN <<>>
    ELSE LET item_data == Head(pairs).v
             video == IF item_data.t = "dict" /\ "video" \in DOMAIN item_data.d
                      THEN ParseVideoItem(item_data.d) ELSE None
         IN (IF video # None THEN <<video>> ELSE <<>>) \o ScanItems(Tail(pairs))

\* the loop `for key in scope` of _parse_hashtag_json
RECURSIVE ScanScope(_)
ScanScope(pairs) ==
    IF pairs = <<>> THEN <<>>
    ELSE (IF IsItemKey(Head(pairs).k) /\ Head(pairs).v.t = "obj"
          THEN ScanItems(Head(pairs).v.pairs) ELSE <<>>) \o ScanScope(Tail(pairs))

\* _parse_hashtag_json: the challenge lookup raises
ChallengeRaises(scope) ==
    HasKey(scope, ChallengeKey) /\
    LET challenge == Lookup(scope, ChallengeKey)
    IN \/ ~IsDict(challenge)
       \/ /\ "challengeInfo" \in DOMAIN challenge.d
          /\ "challenge" \notin DOMAIN challenge.d.challengeInfo.d

\* _parse_hashtag_json: the 'hashtag' and 'videos' keys of its result (the
\* metadata keys 'scraped_at' and 'hashtag_info' are not kept: an exception in
\* the challenge lookup leaves the try block before the items are scanned)
ParseHashtagJson(data) ==
    LET empty == [hashtag |-> "tag", videos |-> <<>>]
    IN IF ~IsDict(data) THEN empty                       \* `in` on None raises
       ELSE IF "__DEFAULT_SCOPE__" \notin DOMAIN data.d THEN empty
       ELSE LET scope == data.d["__DEFAULT_SCOPE__"]
            IN IF ~IsDict(scope) THEN empty
               ELSE IF ChallengeRaises(scope) THEN empty
               ELSE [hashtag |-> "tag", videos |-> ScanScope(scope.pairs)]

\* _extract_from_json
\* a variant of the lookup that passes over a known script with no text
RECURSIVE FindScriptNonEmpty(_)
FindScriptNonEmpty(scripts) ==
    IF scripts = <<>> THEN [kind |-> "null"]
    ELSE IF Head(scripts).id \in KnownScriptIds /\ Head(scripts).text.kind # "empty"
    THEN Head(scripts).text
    ELSE FindScriptNonEmpty(Tail(scripts))

\* the script evaluated in the page: the textContent of the first script, in
\* document order, whose id is one of the two known ids; null when none is
RECURSIVE FindScript(_)
FindScript(scripts) ==
    IF scripts = <<>> THEN [kind |-> "null"]
    ELSE IF Head(scripts).id \in KnownScriptIds THEN Head(scripts).text
    ELSE FindScript(Tail(scripts))

ExtractFromJson(script_data) ==
    IF script_data.kind \in {"null", "empty"} THEN [hashtag |-> "tag", videos |-> <<>>]
    ELSE IF script_data.kind = "invalid" THEN [hashtag |-> "tag", videos |-> <<>>]
    ELSE ParseHashtagJson(script_data.data)

\* --------------------------------------------------- the scrolled feed
Heights == {1, 2}

\* the challenge-item nodes a query returns: element.query_selector('a')
\* raises, finds no link, or finds a link whose href is empty or one of
\* Hrefs; inner_text() of the node succeeds or raises
Elements ==
    {[kind |-> "raises"], [kind |-> "nolink"],
     [kind |-> "link", href |-> <<>>, inner_text |-> TRUE],
     [kind |-> "link", href |-> RelHref("1"), inner_text |-> FALSE]} \cup
    {[kind |-> "link", href |-> h, inner_text |-> TRUE] : h \in Hrefs}

\* _extract_video_info_from_element
ExtractVideoInfoFromElement(element, url) ==
    IF ~element.inner_text THEN None
    ELSE [id |-> VideoIdOf(url),
          url |-> IF StartsWithHttp(url) THEN url ELSE <<Host>> \o url,
          stats_text |-> JStr("text"),
          scraped_via |-> "html_scroll",
          stats |-> ZeroStats]

\* href and href not in [v.get('url') for v in videos]
IsNewHref(href, vs) == href # <<>> /\ \A i \in 1..Len(vs) : vs[i].url # href

\* the loop `for element in video_elements` of _scrape_videos_by_scrolling
RECURSIVE CollectFrom(_, _, _)
CollectFrom(elements, vs, limit) ==
    IF elements = <<>> \/ Len(vs) >= limit THEN vs
    ELSE LET element == Head(elements)
             video_info == IF element.kind = "link" /\ IsNewHref(element.href, vs)
                           THEN ExtractVideoInfoFromElement(element, element.href)
                           ELSE None
         IN CollectFrom(Tail(elements),
                        IF video_info # None THEN Append(vs, video_info) ELSE vs,
                        limit)

\* seq[:n]
Take(seq, n) == SubSeq(seq, 1, IF n < Len(seq) THEN n ELSE Len(seq))

\* ------------------------------------------------------- text of a node
\* Text the code strips, tests for emptiness or parses is a sequence of
\* one-character strings.
Digits == {"0", "1", "2", "3", "4", "5", "6", "7", "8", "9"}
DigitVal(c) ==
    CASE c = "0" -> 0 [] c = "1" -> 1 [] c = "2" -> 2 [] c = "3" -> 3 [] c = "4" -> 4
      [] c = "5" -> 5 [] c = "6" -> 6 [] c = "7" -> 7 [] c = "8" -> 8 [] c = "9" -> 9

RECURSIVE LStrip(_)
LStrip(s) == IF s # <<>> /\ Head(s) = " " THEN LStrip(Tail(s)) ELSE s
RECURSIVE RStrip(_)
RStrip(s) == IF s # <<>> /\ s[Len(s)] = " " THEN RStrip(SubSeq(s, 1, Len(s) - 1)) ELSE s
\* str.strip()
Strip(s) == RStrip(LStrip(s))

\* str.upper()
UpperChar(c) == CASE c = "k" -> "K" [] c = "m" -> "M" [] c = "a" -> "A" [] OTHER -> c
Upper(s) == [i \in 1..Len(s) |-> UpperChar(s[i])]

\* str.replace(c, '')
RECURSIVE Remove(_, _)
Remove(s, c) ==
    IF s = <<>> THEN <<>>
    ELSE (IF Head(s) = c THEN <<>> ELSE <<Head(s)>>) \o Remove(Tail(s), c)

Contains(s, c) == \E i \in 1..Len(s) : s[i] = c

RECURSIVE DigitsValue(_)
DigitsValue(s) == IF s = <<>> THEN 0 ELSE DigitsValue(SubSeq(s, 1, Len(s) - 1)) * 10 + DigitVal(s[Len(s)])

AllDigits(s) == \A i \in 1..Len(s) : s[i] \in Digits

RECURSIVE Pow10(_)
Pow10(n) == IF n = 0 THEN 1 ELSE 10 * Pow10(n - 1)

RECURSIVE Pow2(_)
Pow2(n) == IF n = 0 THEN 1 ELSE 2 * Pow2(n - 1)
\* 2^n modulo m
RECURSIVE Pow2Mod(_, _)
Pow2Mod(n, m) == IF n = 0 THEN 1 % m ELSE (2 * Pow2Mod(n - 1, m)) % m
\* the binary exponent of n/d: the e with 2^e <= n/d < 2^(e+1), for n > 0
RECURSIVE Log2Floor(_, _)
Log2Floor(n, d) ==
    IF n < d THEN Log2Floor(2 * n, d) - 1
    ELSE IF n \div 2 >= d THEN Log2Floor(n, 2 * d) + 1
    ELSE 0

\* int(text): digits only, at least one
IntOk(s) == s # <<>> /\ AllDigits(s)

\* float(text) accepts blanks around digits with at most one point and at
\* least one digit
FloatOk(text) ==
    LET s == Strip(text)
    IN /\ Cardinality({i \in 1..Len(s) : s[i] = "."}) <= 1
       /\ AllDigits(Remove(s, "."))
       /\ Remove(s, ".") # <<>>
\* the number of digits after the point
Decimals(text) ==
    LET s == Strip(text)
    IN IF Contains(s, ".") THEN Len(s) - (CHOOSE i \in 1..Len(s) : s[i] = ".") ELSE 0

\* int(float(x) * factor) for x = n / 10^k, in IEEE 754 double arithmetic
\* (round to nearest).  With p = n * factor / 10^k an integer: float(x) is
\* the 53-bit value nearest to x, below x by rem / (10^k * 2^(52 - ex))
\* when rem, the remainder of n * 2^(52 - ex) by 10^k, is under half of
\* 10^k; the product is then below p by less than the spacing 2^(eP - 52)
\* of the doubles at p, and it rounds to the double under p, whose integer
\* part is p - 1, when that distance exceeds half the spacing under p.
RECURSIVE FloatTimes(_, _, _)
FloatTimes(n, k, factor) ==
    IF n = 0 THEN 0
    ELSE IF k > 0 /\ n % 10 = 0 THEN FloatTimes(n \div 10, k - 1, factor)
    ELSE IF Pow10(k) > factor THEN n \div (Pow10(k) \div factor)
    ELSE LET m == Pow10(k)
             fq == factor \div m
             p == n * fq
             ex == Log2Floor(n, m)
             eP == Log2Floor(p, 1)
             rem == ((n % m) * Pow2Mod(52 - ex, m)) % m
         IN IF rem = 0 \/ 2 * rem > m THEN p
            ELSE IF rem * fq * (IF p = Pow2(eP) THEN 2 ELSE 1) > Pow2(eP - ex - 1)
            THEN p - 1 ELSE p

\* int(float(text) * factor)
ScaledInt(text, factor) ==
    FloatTimes(DigitsValue(Remove(Strip(text), ".")), Decimals(text), factor)

\* _parse_count
ParseCount(count_str) ==
    LET s == Upper(Strip(count_str))
    IN IF Contains(s, "K")
       THEN (IF FloatOk(Remove(s, "K")) THEN ScaledInt(Remove(s, "K"), 1000) ELSE 0)
       ELSE IF Contains(s, "M")
       THEN (IF FloatOk(Remove(s, "M")) THEN ScaledInt(Remove(s, "M"), 1000000) ELSE 0)
       ELSE IF IntOk(s) THEN DigitsValue(s) ELSE 0

\* the texts _parse_count is called with on its own: a numeral of up to
\* MaxIntDigits digits and MaxFracDigits decimals (or none), with something
\* or nothing before and after it
CountDigits == {"0", "1", "2", "3", "4", "5"}
IntParts == SeqsUpTo(CountDigits, MaxIntDigits)
FracParts == {<<>>} \cup {<<".">> \o f : f \in SeqsUpTo(CountDigits, MaxFracDigits)}
Numerals == {n \o f : n \in IntParts, f \in FracParts}
Before == {<<>>, <<" ">>, <<"K">>, <<"a">>}
After == {<<>>, <<"K">>, <<"M">>, <<"k">>, <<"m", " ">>, <<"K", "M">>, <<" ">>,
          <<"a", "b", "c">>}
CountTexts == {b \o n \o a : b \in Before, n \in Numerals, a \in After}

\* --------------------------------------------------------- comment nodes
\* What one selector strategy does on a node: query_selector finds nothing,
\* the lookup or inner_text() raises, or the matched element has a text.
NoMatch == [m |-> "none"]
Raises == [m |-> "raise"]
Text(s) == [m |-> "text", v |-> s]

\* the loop over a selector list: the text of the first strategy that
\* matches an element (the loop breaks there), '' when none does
RECURSIVE FirstMatch(_)
FirstMatch(chain) ==
    IF chain = <<>> THEN <<>>
    ELSE IF Head(chain).m = "text" THEN Head(chain).v
    ELSE FirstMatch(Tail(chain))

\* whether some strategy of the list matched an element
Matched(chain) == \E i \in 1..Len(chain) : chain[i].m = "text"

\* a variant without the fallback to the node's own text
NodeTextNoFallback(element) == Text(FirstMatch(element.sel_text))

\* comment_text after `if not comment_text: comment_text = await
\* element.inner_text()`: a text, or the call raises
NodeText(element) ==
    IF FirstMatch(element.sel_text) # <<>>
    THEN Text(FirstMatch(element.sel_text))
    ELSE element.inner_text

\* _extract_comment_data: the comment dict of one node, or None
ExtractCommentData(element) ==
    IF NodeText(element).m = "raise" THEN None
       ELSE LET comment_text == NodeText(element).v
                username == FirstMatch(element.sel_username)
                likes == IF Matched(element.sel_likes)
                         THEN ParseCount(FirstMatch(element.sel_likes)) ELSE 0
                timestamp == FirstMatch(element.sel_time)
            IN IF comment_text # <<>>
               THEN [text |-> Strip(comment_text),
                     author |-> IF username # <<>> THEN Strip(username)
                                ELSE <<"U", "n", "k", "n", "o", "w", "n">>,
                     likes |-> likes,
                     timestamp |-> IF timestamp # <<>> THEN Strip(timestamp) ELSE <<>>]
               ELSE None

\* the comment nodes a detail page of the session renders
CommentNodes ==
    { [sel_text |-> <<Text(<<"h", "i">>), NoMatch, NoMatch>>,
       inner_text |-> Text(<<"h", "i">>),
       sel_username |-> <<Text(<<"b">>), NoMatch, NoMatch>>,
       sel_likes |-> <<Text(<<"7">>), NoMatch>>,
       sel_time |-> <<NoMatch, NoMatch, NoMatch>>],
      [sel_text |-> <<NoMatch, NoMatch, NoMatch>>,
       inner_text |-> Text(<<>>),
       sel_username |-> <<NoMatch, NoMatch, NoMatch>>,
       sel_likes |-> <<NoMatch, NoMatch>>,
       sel_time |-> <<NoMatch, NoMatch, NoMatch>>] }

\* the nodes _extract_comment_data is called with on its own: every outcome
\* of the three text strategies and of the node's own text, with some
\* outcomes of the other fields
TextOutcomes == {NoMatch, Raises, Text(<<>>), Text(<<"h", "i">>)}
InnerTextOutcomes == {Raises, Text(<<>>), Text(<<" ">>), Text(<<" ", "y", "o">>)}
UsernameChains ==
    { <<NoMatch, NoMatch, NoMatch>>,
      <<Raises, Text(<<"b", " ">>), NoMatch>>,
      <<Text(<<>>), Text(<<"b">>), NoMatch>> }
LikeChains ==
    { <<NoMatch, NoMatch>>,
      <<Text(<<"7">>), NoMatch>>,
      <<Raises, Text(<<"2", "K">>)>> }
TimeChains ==
    { <<NoMatch, NoMatch, NoMatch>>,
      <<NoMatch, NoMatch, Text(<<"1", "d">>)>> }
CommentElements ==
    [sel_text : [1..3 -> TextOutcomes], inner_text : InnerTextOutcomes,
     sel_username : UsernameChains, sel_likes : LikeChains, sel_time : TimeChains]

IsComment(x) == DOMAIN x = {"text", "author", "likes", "timestamp"}

\* the loop `for i, element in enumerate(comments[:max_comments])`: each
\* comment dict is appended to the list the nodes are held in
RECURSIVE ExtractInto(_, _)
ExtractInto(elements, list) ==
    IF elements = <<>> THEN list
    ELSE LET comment_data == ExtractCommentData(Head(elements))
         IN ExtractInto(Tail(elements),
                        IF comment_data # None THEN Append(list, comment_data) ELSE list)

\* ------------------------------------------------------ the detail page
DetailKey == "webapp.video-detail"
ItemStruct(stats) ==
    JDict([id |-> JStr("1"), desc |-> JStr("long")] @@ stats)
ItemStructs ==
    { ItemStruct([stats |-> JDict([playCount |-> JInt(5), commentCount |-> JInt(2)])]),
      ItemStruct([stats |-> JDict([playCount |-> JInt(5), commentCount |-> JInt(0)])]),
      ItemStruct([stats |-> JDict([playCount |-> JInt(5), commentCount |-> JNull])]),
      ItemStruct(EmptyDict),
      JNull }
DetailData ==
    {JNull, JDict(EmptyDict),
     JDict("__DEFAULT_SCOPE__" :> JDict(EmptyDict)),
     JDict("__DEFAULT_SCOPE__" :> JDict(DetailKey :> JDict(EmptyDict)))} \cup
    {JDict("__DEFAULT_SCOPE__" :> JDict(DetailKey :> JDict([itemInfo |-> JDict([itemStruct |-> it])]))) :
        it \in ItemStructs}
DetailScriptData ==
    {[kind |-> "null"], [kind |-> "invalid"]} \cup {[kind |-> "json", data |-> d] : d \in DetailData}

\* a variant that carries the tag of the scrolled items
VideoInfoInitAsScrolled(video_url) == [url |-> video_url, scraped_via |-> "html_scroll"]

\* video_info = {'url': video_url, 'scraped_via': 'video_page'}
VideoInfoInit(video_url) == [url |-> video_url, scraped_via |-> "video_page"]

\* _parse_video_details_json: the record of the item, or None
\* (author, video, music and hashtags are copied under the same
\* `if key in item` pattern as stats)
ParseVideoDetailsJson(data, video_url) ==
    IF ~IsDict(data) THEN None
    ELSE IF "__DEFAULT_SCOPE__" \notin DOMAIN data.d THEN None
    ELSE LET scope == data.d["__DEFAULT_SCOPE__"].d
         IN IF DetailKey \notin DOMAIN scope THEN None
            ELSE LET detail == scope[DetailKey].d
                 IN IF ~("itemInfo" \in DOMAIN detail /\ "itemStruct" \in DOMAIN detail.itemInfo.d)
                    THEN None
                    ELSE LET item == detail.itemInfo.d.itemStruct
                         IN IF ~IsDict(item) THEN None
                            ELSE (VideoInfoInit(video_url) @@
                                  [id |-> Get(item.d, "id", None),
                                   description |-> Get(item.d, "desc", JStr(""))]) @@
                                 (IF "stats" \in DOMAIN item.d
                                  THEN [stats |->
                                         [views |-> Get(item.d.stats.d, "playCount", JInt(0)),
                                          likes |-> Get(item.d.stats.d, "diggCount", JInt(0)),
                                          comments |-> Get(item.d.stats.d, "commentCount", JInt(0)),
                                          shares |-> Get(item.d.stats.d, "shareCount", JInt(0)),
                                          saves |-> Get(item.d.stats.d, "collectCount", JInt(0))]]
                                  ELSE EmptyDict)

\* video_details.get('stats', {}).get('comments', 0)
CommentCount(video_details) ==
    IF "stats" \in DOMAIN video_details THEN video_details.stats.comments ELSE JInt(0)

VARIABLES
    pc,                \* position of the session in scrape_hashtag and its callees
    max_videos, detailed_scrape, scrape_comments, max_comments,   \* arguments
    hashtag_info,      \* result of _extract_from_json
    videos,            \* _scrape_videos_by_scrolling: the collected list
    scroll_attempts,   \* _scrape_videos_by_scrolling: consecutive rounds without growth
    detailed_videos,   \* _scrape_videos_by_scrolling: the enriched list
    i,                 \* _scrape_videos_by_scrolling: index of the video being visited
    open_pages,        \* detail pages of the browser context that are open
    detailed_info,     \* scrape_video_details: the value it is about to return
    comments,          \* _scrape_comments_from_page: its list
    comment_scroll_attempts,   \* _scrape_comments_from_page: scroll_attempts
    harvest_path,      \* history: how _scrape_comments_from_page got to its first query
    feed_page,         \* the feed page: not loaded, or loaded with or without a Refresh button
    visited,           \* history: urls scrape_video_details was called with (added at its delay)
    failed,            \* history: indices of the videos whose detail visit left on a failure path
    exit_path,         \* history: how the current detail visit left its try block
    path,              \* history: the branch _extract_hashtag_data took after the JSON attempt
    feed_growth,       \* the feed page: in how many more rounds its height can change
    result,            \* what scrape_hashtag returned
    count_str, count,        \* _parse_count called on its own: argument and return value
    element, comment_data,   \* _extract_comment_data called on its own: argument and return value
    document_scripts,        \* _extract_from_json called on its own: the page's script elements
    json_info                \* _extract_from_json called on its own: return value

args == <<max_videos, detailed_scrape, scrape_comments, max_comments>>
scroll_vars == <<videos, scroll_attempts>>
visit_vars == <<detailed_videos, i, open_pages, detailed_info, visited, failed, exit_path>>
harvest_vars == <<comments, comment_scroll_attempts, harvest_path>>
unit_vars == <<count_str, count, element, comment_data, document_scripts, json_info>>
vars == <<pc, max_videos, detailed_scrape, scrape_comments, max_comments,
          hashtag_info, videos, scroll_attempts, detailed_videos, i, open_pages,
          detailed_info, comments, comment_scroll_attempts, harvest_path, feed_page, visited, failed,
          exit_path, path, feed_growth, result, count_str, count, element, comment_data,
          document_scripts, json_info>>

NoResult == [returned |-> FALSE]

\* the feed page as the scroll loop sees it: its height changes in any round
\* (endless), or in at most `left` more rounds
Endless == [endless |-> TRUE, left |-> 0]
Finite(n) == [endless |-> FALSE, left |-> n]
CanGrow(feed) == feed.endless \/ feed.left > 0
AfterGrowth(feed) == IF feed.endless THEN feed ELSE Finite(feed.left - 1)

\* the helpers are not under a call of their own during a session
NoUnitCall ==
    /\ count_str = <<>>
    /\ count = 0
    /\ element = None
    /\ comment_data = None
    /\ document_scripts = <<>>
    /\ json_info = None

\* a variant of the except clauses that returns the list collected so far
ErrorResultKeepsVideos(msg) ==
    [returned |-> TRUE, hashtag |-> "tag", videos |-> videos, error |-> msg]

\* the two except clauses of scrape_hashtag
ErrorResult(msg) == [returned |-> TRUE, hashtag |-> "tag", videos |-> <<>>, error |-> msg]

\* return hashtag_data (scrape_hashtag, the try's normal exit)
OkResult(hashtag_data) == [returned |-> TRUE] @@ hashtag_data

Init ==
    /\ pc = "goto"
    /\ max_videos \in 1..MaxVideos
    /\ detailed_scrape \in BOOLEAN
    /\ scrape_comments \in BOOLEAN
    /\ max_comments \in 1..MaxCommentsArg
    /\ hashtag_info = [hashtag |-> "tag", videos |-> <<>>]
    /\ videos = <<>>
    /\ scroll_attempts = 0
    /\ detailed_videos = <<>>
    /\ i = 1
    /\ open_pages = 0
    /\ detailed_info = None
    /\ comments = <<>>
    /\ comment_scroll_attempts = 0
    /\ harvest_path = "none"
    /\ feed_page = "not_loaded"
    /\ visited = <<>>
    /\ failed = {}
    /\ exit_path = "none"
    /\ path = "none"
    /\ feed_growth = Endless
    /\ result = NoResult
    /\ NoUnitCall

\* page.goto(url, timeout=30000) of the feed page
Goto ==
    /\ pc = "goto"
    /\ \/ /\ feed_page' \in {"with_refresh", "without_refresh"}
          /\ pc' = "refresh"
          /\ result' = result
       \/ \E outcome \in {"timeout", "error"} :
            /\ pc' = "done"
            /\ result' = ErrorResult(outcome)
            /\ feed_page' = feed_page
    /\ UNCHANGED <<args, unit_vars, path, feed_growth, hashtag_info, scroll_vars, visit_vars, harvest_vars>>

\* page.get_by_role("button", name="Refresh").click(): waits for the button
\* and raises PlaywrightTimeout when the page has none
ClickRefresh ==
    /\ pc = "refresh"
    /\ IF feed_page = "with_refresh"
       THEN pc' = "extract" /\ result' = result
       ELSE pc' = "done" /\ result' = ErrorResult("timeout")
    /\ UNCHANGED <<args, unit_vars, path, feed_growth, feed_page, hashtag_info, scroll_vars, visit_vars, harvest_vars>>

\* a variant that scrolls whatever the JSON attempt gave
NeedsScrollAlways(info) == TRUE

\* if not hashtag_info.get('videos')
NeedsScroll(info) == info.videos = <<>>

\* _extract_hashtag_data up to the call of _scrape_videos_by_scrolling
ExtractHashtagData ==
    /\ pc = "extract"
    /\ \E script_data \in ScriptData :
         LET info == ExtractFromJson(script_data)
         IN /\ hashtag_info' = info
            /\ IF NeedsScroll(info)
               THEN pc' = "scroll" /\ path' = "scroll" /\ result' = result
               ELSE pc' = "done" /\ path' = "json" /\ result' = OkResult(info)
    /\ videos' = <<>>
    /\ scroll_attempts' = 0
    /\ UNCHANGED <<args, unit_vars, feed_growth, feed_page, visit_vars, harvest_vars>>

\* a variant without the cap on the rounds that saw no growth
ScrollGuardNoCap == Len(videos) < max_videos

\* while len(videos) < max_videos and scroll_attempts < max_scroll_attempts
ScrollGuard == Len(videos) < max_videos /\ scroll_attempts < max_scroll_attempts

\* one round of the while loop, first half: query the nodes and collect
ScrollCollect ==
    /\ pc = "scroll"
    /\ ScrollGuard
    /\ \/ \E video_elements \in SeqsUpTo(Elements, MaxElements) :
            /\ videos' = CollectFrom(video_elements, videos, max_videos)
            /\ pc' = "measure"
            /\ result' = result
       \/ /\ pc' = "done"                       \* query_selector_all raises
          /\ result' = ErrorResult("error")
          /\ videos' = videos
    /\ UNCHANGED <<args, unit_vars, path, feed_growth, feed_page, hashtag_info, scroll_attempts, visit_vars, harvest_vars>>

\* a variant without the else branch
NextAttemptsNoReset(attempts, current_height, new_height) ==
    IF new_height = current_height THEN attempts + 1 ELSE attempts

\* if new_height == current_height: scroll_attempts += 1, else: scroll_attempts = 0
NextAttempts(attempts, current_height, new_height) ==
    IF new_height = current_height THEN attempts + 1 ELSE 0

\* second half: scroll to the bottom and compare the heights
ScrollMeasure ==
    /\ pc = "measure"
    /\ \/ \E current_height \in Heights, new_height \in Heights :
            /\ new_height # current_height => CanGrow(feed_growth)
            /\ feed_growth' = IF new_height # current_height
                              THEN AfterGrowth(feed_growth) ELSE feed_growth
            /\ scroll_attempts' = NextAttempts(scroll_attempts, current_height, new_height)
            /\ pc' = "scroll"
            /\ result' = result
       \/ /\ pc' = "done"                       \* page.evaluate raises
          /\ result' = ErrorResult("error")
          /\ scroll_attempts' = scroll_attempts
          /\ feed_growth' = feed_growth
    /\ UNCHANGED <<args, unit_vars, path, feed_page, hashtag_info, videos, visit_vars,
                   harvest_vars>>

\* the loop ends without detailed scraping: return videos[:max_videos]
ScrollReturn ==
    /\ pc = "scroll"
    /\ ~ScrollGuard
    /\ ~detailed_scrape
    /\ hashtag_info' = [hashtag_info EXCEPT !.videos = Take(videos, max_videos)]
    /\ result' = OkResult(hashtag_info')
    /\ pc' = "done"
    /\ UNCHANGED <<args, unit_vars, path, feed_growth, feed_page, scroll_vars, visit_vars, harvest_vars>>

\* the loop ends with a context: start the loop over the videos
\* (scroll_attempts is not read after the while loop; it is cleared here)
StartDetails ==
    /\ pc = "scroll"
    /\ ~ScrollGuard
    /\ detailed_scrape
    /\ detailed_videos' = <<>>
    /\ i' = 1
    /\ scroll_attempts' = 0
    /\ pc' = "details"
    /\ UNCHANGED <<args, unit_vars, path, feed_growth, feed_page, hashtag_info, videos, open_pages, detailed_info,
                   visited, failed, exit_path, harvest_vars, result>>

\* scrape_video_details is called for videos[i]: the jittered sleep
VisitDelay ==
    /\ pc = "details"
    /\ i <= Len(videos)
    /\ visited' = Append(visited, videos[i].url)
    /\ exit_path' = "none"
    /\ pc' = "v_new_page"
    /\ UNCHANGED <<args, unit_vars, path, feed_growth, feed_page, hashtag_info, scroll_vars, detailed_videos, i, open_pages,
                   detailed_info, failed, harvest_vars, result>>

\* context.new_page()
NewPage ==
    /\ pc = "v_new_page"
    /\ \/ /\ open_pages' = open_pages + 1
          /\ pc' = "v_goto"
          /\ UNCHANGED <<detailed_info, exit_path>>
       \/ /\ detailed_info' = None                \* raises: the outer except
          /\ exit_path' = "new_page_error"
          /\ pc' = "v_return"
          /\ open_pages' = open_pages
    /\ UNCHANGED <<args, unit_vars, path, feed_growth, feed_page, hashtag_info, scroll_vars, detailed_videos, i, visited, failed,
                   harvest_vars, result>>

\* page.goto(video_url, timeout=30000)
PageGoto ==
    /\ pc = "v_goto"
    /\ \/ /\ pc' = "v_extract"
          /\ UNCHANGED <<detailed_info, exit_path>>
       \/ /\ detailed_info' = None
          /\ exit_path' = "goto_error"
          /\ pc' = "v_close"
    /\ UNCHANGED <<args, unit_vars, path, feed_growth, feed_page, hashtag_info, scroll_vars, detailed_videos, i, open_pages,
                   visited, failed, harvest_vars, result>>

\* the payload lookup, json.loads, _parse_video_details_json and the
\* decision to harvest comments
ExtractDetails ==
    /\ pc = "v_extract"
    /\ \E script_data \in DetailScriptData \cup {[kind |-> "raise"]} :
         IF script_data.kind # "json"
         THEN /\ detailed_info' = None
              /\ exit_path' = (CASE script_data.kind = "null" -> "no_payload"
                                 [] script_data.kind = "invalid" -> "bad_json"
                                 [] OTHER -> "evaluate_error")
              /\ pc' = "v_close"
         ELSE LET video_details == ParseVideoDetailsJson(script_data.data, videos[i].url)
              IN IF scrape_comments /\ video_details # None
                 THEN IF CommentCount(video_details).t # "int"
                      THEN /\ detailed_info' = None      \* None > 0 raises TypeError
                           /\ exit_path' = "type_error"
                           /\ pc' = "v_close"
                      ELSE /\ detailed_info' = video_details
                           /\ exit_path' = "parsed"
                           /\ pc' = IF CommentCount(video_details).v > 0
                                    THEN "c_open" ELSE "v_close"
                 ELSE /\ detailed_info' = video_details
                      /\ exit_path' = IF video_details = None THEN "parse_none" ELSE "parsed"
                      /\ pc' = "v_close"
    /\ UNCHANGED <<args, unit_vars, path, feed_growth, feed_page, hashtag_info, scroll_vars, detailed_videos, i, open_pages,
                   visited, failed, harvest_vars, result>>

\* _scrape_comments_from_page up to its scroll loop: the icon lookup, the
\* click and the first query
HarvestOpen ==
    /\ pc = "c_open"
    /\ \/ /\ comments' = <<>>                     \* no icon: None.click() raises
          /\ harvest_path' = "no_icon"
          /\ pc' = "c_return"
       \/ /\ comments' = <<>>                     \* the lookup, the click or the query raises
          /\ harvest_path' = "open_error"
          /\ pc' = "c_return"
       \/ \E nodes \in SeqsUpTo(CommentNodes, MaxCommentNodes) :
            /\ comments' = nodes
            /\ harvest_path' = "queried"
            /\ pc' = IF nodes = <<>> THEN "c_return" ELSE "c_scroll"
    /\ comment_scroll_attempts' = 0
    /\ UNCHANGED <<args, unit_vars, path, feed_growth, feed_page, hashtag_info, scroll_vars, visit_vars, result>>

\* a variant without the cap on the attempts
HarvestGuardNoCap == Len(comments) < max_comments

\* while len(comments) < max_comments and scroll_attempts < max_scroll
HarvestGuard == Len(comments) < max_comments /\ comment_scroll_attempts < max_scroll

\* one attempt of the comment scroll loop
HarvestScroll ==
    /\ pc = "c_scroll"
    /\ HarvestGuard
    /\ \/ comments' = comments                    \* evaluate or the re-query raises
       \/ \E elements \in SeqsUpTo(CommentNodes, MaxCommentNodes) :
            comments' = IF Len(elements) > Len(comments) THEN elements ELSE comments
    /\ comment_scroll_attempts' = comment_scroll_attempts + 1
    /\ harvest_path' = harvest_path
    /\ UNCHANGED <<pc, args, unit_vars, path, feed_growth, feed_page, hashtag_info, scroll_vars, visit_vars, result>>

\* the extraction loop, after which the list is returned
HarvestExtract ==
    /\ pc = "c_scroll"
    /\ ~HarvestGuard
    /\ comments' = ExtractInto(Take(comments, max_comments), comments)
    /\ pc' = "c_return"
    /\ UNCHANGED <<args, unit_vars, path, feed_growth, feed_page, hashtag_info, scroll_vars, visit_vars,
                   comment_scroll_attempts, harvest_path, result>>

\* a variant without the test of the list
WithCommentsAlways(video_details, found) == [comments |-> found] @@ video_details

\* if comments: video_details['comments'] = comments
WithComments(video_details, found) ==
    IF found # <<>> THEN [comments |-> found] @@ video_details ELSE video_details

\* back in scrape_video_details with the list of the harvester
HarvestReturn ==
    /\ pc = "c_return"
    /\ detailed_info' = WithComments(detailed_info, comments)
    /\ pc' = "v_close"
    /\ UNCHANGED <<args, unit_vars, path, feed_growth, feed_page, hashtag_info, scroll_vars, detailed_videos, i, open_pages,
                   visited, failed, exit_path, harvest_vars, result>>

\* a variant without the finally clause
PagesAfterCloseNever(pages, info) == pages

\* a variant that closes the page at the end of the try body only, so that a
\* visit that returns None leaves it open
PagesAfterCloseOnSuccess(pages, info) == IF info = None THEN pages ELSE pages - 1

\* finally: await page.close()
PagesAfterClose(pages, info) == pages - 1

ClosePage ==
    /\ pc = "v_close"
    /\ open_pages' = PagesAfterClose(open_pages, detailed_info)
    /\ pc' = "v_return"
    /\ UNCHANGED <<args, unit_vars, path, feed_growth, feed_page, hashtag_info, scroll_vars, detailed_videos, i, detailed_info,
                   visited, failed, exit_path, harvest_vars, result>>

\* a variant without the else branch: a video whose visit fails is dropped
AppendDetailedDropsFailed(list, info, video) ==
    IF info # None THEN Append(list, info) ELSE list

\* if detailed_info: append it, else keep the basic info
AppendDetailed(list, info, video) == Append(list, IF info # None THEN info ELSE video)

\* a variant that leaves the loop at the first visit that fails
NextIndexStopsOnFailure(k, info, n) == IF info = None THEN n + 1 ELSE k + 1

\* for i, video in enumerate(videos, 1): the next video, whatever the visit
\* of this one returned
NextIndex(k, info, n) == k + 1

\* scrape_video_details has returned (its locals are cleared)
VisitReturn ==
    /\ pc = "v_return"
    /\ detailed_videos' = AppendDetailed(detailed_videos, detailed_info, videos[i])
    /\ i' = NextIndex(i, detailed_info, Len(videos))
    /\ detailed_info' = None
    /\ comments' = <<>>
    /\ comment_scroll_attempts' = 0
    /\ harvest_path' = "none"
    /\ failed' = IF exit_path # "parsed" THEN failed \cup {i} ELSE failed
    /\ exit_path' = "none"
    /\ pc' = "details"
    /\ UNCHANGED <<args, unit_vars, path, feed_growth, feed_page, hashtag_info, scroll_vars, open_pages, visited, result>>

\* return detailed_videos[:max_videos]
DetailsReturn ==
    /\ pc = "details"
    /\ i > Len(videos)
    /\ hashtag_info' = [hashtag_info EXCEPT !.videos = Take(detailed_videos, max_videos)]
    /\ result' = OkResult(hashtag_info')
    /\ pc' = "done"
    /\ UNCHANGED <<args, unit_vars, path, feed_growth, feed_page, scroll_vars, visit_vars, harvest_vars>>

Next ==
    \/ Goto
    \/ ClickRefresh
    \/ ExtractHashtagData
    \/ ScrollCollect
    \/ ScrollMeasure
    \/ ScrollReturn
    \/ StartDetails
    \/ VisitDelay
    \/ NewPage
    \/ PageGoto
    \/ ExtractDetails
    \/ HarvestOpen
    \/ HarvestScroll
    \/ HarvestExtract
    \/ HarvestReturn
    \/ ClosePage
    \/ VisitReturn
    \/ DetailsReturn

Spec == Init /\ [][Next]_vars

\* ------------------------------------- the scroll loop on a finite feed
\* _scrape_videos_by_scrolling is entered (the JSON attempt gave no video) on
\* a feed page whose height changes in at most MaxGrowingRounds more rounds
ScrollInit ==
    /\ pc = "scroll"
    /\ max_videos \in 1..MaxVideos
    /\ detailed_scrape \in BOOLEAN
    /\ scrape_comments \in BOOLEAN
    /\ max_comments \in 1..MaxCommentsArg
    /\ hashtag_info = [hashtag |-> "tag", videos |-> <<>>]
    /\ videos = <<>>
    /\ scroll_attempts = 0
    /\ detailed_videos = <<>>
    /\ i = 1
    /\ open_pages = 0
    /\ detailed_info = None
    /\ comments = <<>>
    /\ comment_scroll_attempts = 0
    /\ harvest_path = "none"
    /\ feed_page = "with_refresh"
    /\ visited = <<>>
    /\ failed = {}
    /\ exit_path = "none"
    /\ path = "scroll"
    /\ feed_growth \in {Finite(n) : n \in 0..MaxGrowingRounds}
    /\ result = NoResult
    /\ NoUnitCall

ScrollNext ==
    \/ ScrollCollect
    \/ ScrollMeasure
    \/ ScrollReturn
    \/ StartDetails

\* the session is one thread of control that runs on while it has a step
ScrollSpec == ScrollInit /\ [][ScrollNext]_vars /\ WF_vars(ScrollNext)

\* the same entry on a feed page whose height changes in every round, for as
\* long as the loop runs
EndlessInit ==
    /\ pc = "scroll"
    /\ max_videos \in 1..MaxVideos
    /\ detailed_scrape \in BOOLEAN
    /\ scrape_comments \in BOOLEAN
    /\ max_comments \in 1..MaxCommentsArg
    /\ hashtag_info = [hashtag |-> "tag", videos |-> <<>>]
    /\ videos = <<>>
    /\ scroll_attempts = 0
    /\ detailed_videos = <<>>
    /\ i = 1
    /\ open_pages = 0
    /\ detailed_info = None
    /\ comments = <<>>
    /\ comment_scroll_attempts = 0
    /\ harvest_path = "none"
    /\ feed_page = "with_refresh"
    /\ visited = <<>>
    /\ failed = {}
    /\ exit_path = "none"
    /\ path = "scroll"
    /\ feed_growth = Endless
    /\ result = NoResult
    /\ NoUnitCall

EndlessSpec == EndlessInit /\ [][ScrollNext]_vars /\ WF_vars(ScrollNext)

\* ------------------------------------------ the comment harvest alone
\* _scrape_comments_from_page is entered by the visit of the one collected
\* video, whose detail record counts one comment or more
HarvestInit ==
    /\ pc = "c_open"
    /\ max_videos \in 1..MaxVideos
    /\ detailed_scrape = TRUE
    /\ scrape_comments = TRUE
    /\ max_comments \in 1..MaxCommentsArg
    /\ hashtag_info = [hashtag |-> "tag", videos |-> <<>>]
    /\ videos \in {CollectFrom(<<e>>, <<>>, 1) :
                      e \in {x \in Elements : x.kind = "link" /\ x.inner_text /\ x.href # <<>>}}
    /\ scroll_attempts = 0
    /\ detailed_videos = <<>>
    /\ i = 1
    /\ open_pages = 1
    /\ detailed_info \in
          {r \in {ParseVideoDetailsJson(d, videos[1].url) : d \in DetailData} :
              r # None /\ CommentCount(r).t = "int" /\ CommentCount(r).v > 0}
    /\ comments = <<>>
    /\ comment_scroll_attempts = 0
    /\ harvest_path = "none"
    /\ feed_page = "with_refresh"
    /\ visited = <<videos[1].url>>
    /\ failed = {}
    /\ exit_path = "parsed"
    /\ path = "scroll"
    /\ feed_growth = Endless
    /\ result = NoResult
    /\ NoUnitCall

HarvestNext ==
    \/ HarvestOpen
    \/ HarvestScroll
    \/ HarvestExtract
    \/ HarvestReturn

\* the session is one thread of control that runs on while it has a step
HarvestSpec == HarvestInit /\ [][HarvestNext]_vars /\ WF_vars(HarvestNext)

\* ---------------------------------------------- the helpers on their own
\* no session is running: its variables stay at their initial values
NoSession ==
    /\ max_videos = 1 /\ detailed_scrape = FALSE
    /\ scrape_comments = FALSE /\ max_comments = 1
    /\ hashtag_info = [hashtag |-> "tag", videos |-> <<>>]
    /\ videos = <<>> /\ scroll_attempts = 0
    /\ detailed_videos = <<>> /\ i = 1 /\ open_pages = 0
    /\ detailed_info = None
    /\ comments = <<>> /\ comment_scroll_attempts = 0 /\ harvest_path = "none"
    /\ feed_page = "not_loaded"
    /\ visited = <<>> /\ failed = {} /\ exit_path = "none"
    /\ path = "none" /\ feed_growth = Endless
    /\ result = NoResult
session_vars == <<args, hashtag_info, scroll_vars, visit_vars, harvest_vars, feed_page,
                  path, feed_growth, result>>

\* _extract_comment_data(element, page) is called with one node
CommentInit ==
    /\ pc = "comment_call"
    /\ element \in CommentElements
    /\ comment_data = None
    /\ count_str = <<>> /\ count = 0
    /\ document_scripts = <<>> /\ json_info = None
    /\ NoSession

ExtractCommentDataCall ==
    /\ pc = "comment_call"
    /\ comment_data' = ExtractCommentData(element)
    /\ pc' = "comment_return"
    /\ UNCHANGED <<session_vars, element, count_str, count, document_scripts, json_info>>

CommentNext == ExtractCommentDataCall

CommentSpec == CommentInit /\ [][CommentNext]_vars

\* _extract_from_json(page, hashtag) is called on one page: a page with up to
\* MaxScripts scripts, or a page with one known script holding any payload
JsonInit ==
    /\ pc = "json_call"
    /\ document_scripts \in Documents \cup
          {<<[id |-> "SIGI_STATE", text |-> t]>> : t \in ScriptData \ {[kind |-> "null"]}}
    /\ json_info = None
    /\ count_str = <<>> /\ count = 0
    /\ element = None /\ comment_data = None
    /\ NoSession

ExtractFromJsonCall ==
    /\ pc = "json_call"
    /\ json_info' = ExtractFromJson(FindScript(document_scripts))
    /\ pc' = "json_return"
    /\ UNCHANGED <<session_vars, document_scripts, count_str, count, element, comment_data>>

JsonNext == ExtractFromJsonCall

JsonSpec == JsonInit /\ [][JsonNext]_vars

\* _parse_count(count_str) is called with one text
CountInit ==
    /\ pc = "count_call"
    /\ count_str \in CountTexts
    /\ count = 0
    /\ element = None /\ comment_data = None
    /\ document_scripts = <<>> /\ json_info = None
    /\ NoSession

ParseCountCall ==
    /\ pc = "count_call"
    /\ count' = ParseCount(count_str)
    /\ pc' = "count_return"
    /\ UNCHANGED <<session_vars, count_str, element, comment_data, document_scripts, json_info>>

CountNext == ParseCountCall

CountSpec == CountInit /\ [][CountNext]_vars

\* ------------------------------------------------------------ properties
HasError(r) == "error" \in DOMAIN r
Range(seq) == {seq[k] : k \in 1..Len(seq)}
PageOpenPcs == {"v_goto", "v_extract", "c_open", "c_scroll", "c_return", "v_close"}

\* C1: the list collected by scrolling never holds two items with the same url,
\* whichever href form the page returns
C1_CollectedUrlsUnique ==
    \A a, b \in 1..Len(videos) : a # b => videos[a].url # videos[b].url

\* C2: the result returned by scrape_hashtag holds at most max_videos items,
\* whichever path produced them
C2_ResultWithinMaxVideos ==
    pc = "done" => Len(result.videos) <= max_videos

\* C3: with detailed scraping requested, every item of a result that is not an
\* error result has had a detail visit attempted for its url
C3_EveryItemVisited ==
    (pc = "done" /\ detailed_scrape /\ ~HasError(result)) =>
        \A k \in 1..Len(result.videos) : result.videos[k].url \in Range(visited)

\* C4: when the feed page has loaded without a Refresh button, the session
\* goes on to the structured extraction and returns no result at that step
C4_RefreshOptional ==
    [][(pc = "refresh" /\ feed_page = "without_refresh")
          => (pc' = "extract" /\ result' = NoResult)]_vars

\* C5: the session ends only by returning a result; a feed navigation that
\* times out or fails gives a result with an error and no items, and every
\* result that carries an error has no items
C5_NavigationErrorResult ==
    /\ (pc = "done") <=> result.returned
    /\ (pc = "done" /\ feed_page = "not_loaded") =>
          (HasError(result) /\ result.videos = <<>>)
    /\ (pc = "done" /\ HasError(result)) => result.videos = <<>>

\* the feed navigation has timed out and the session has returned its
\* error result
C5_Witness ==
    /\ pc = "done" /\ feed_page = "not_loaded"
    /\ result.returned /\ HasError(result) /\ result.error = "timeout"
    /\ result.videos = <<>>

\* C6: a result that carries an error still holds the items collected before
\* the failure
C6_CollectedItemsKept ==
    (pc = "done" /\ HasError(result) /\ Len(videos) >= 1) => result.videos = videos

\* C7: enrichment keeps length and order (the k-th enriched item has the k-th
\* collected item's url, one per visit made), and an item whose visit failed
\* is the collected item itself, field for field
C7_EnrichmentKeepsItems ==
    /\ Len(detailed_videos) = i - 1
    /\ \A k \in 1..Len(detailed_videos) :
          /\ detailed_videos[k].url = videos[k].url
          /\ k \in failed => detailed_videos[k] = videos[k]
    /\ (pc = "done" /\ detailed_scrape /\ ~HasError(result) /\ videos # <<>>) =>
          /\ Len(result.videos) = Len(videos)
          /\ \A k \in 1..Len(videos) :
                /\ result.videos[k].url = videos[k].url
                /\ k \in failed => result.videos[k] = videos[k]

\* the session has returned two items, the first kept as collected after its
\* visit failed, the second replaced by its detail record
C7_Witness ==
    /\ pc = "done" /\ Len(result.videos) = 2
    /\ failed = {1}
    /\ result.videos[1] = videos[1]
    /\ result.videos[2].scraped_via = "video_page"

\* C8: a detail page is open only between new_page and the finally clause of
\* its visit, and at most one is; none is open once the visit has returned
C8_DetailPagesClosed ==
    /\ open_pages \in {0, 1}
    /\ pc \notin PageOpenPcs => open_pages = 0

\* a visit that opened its page and left on an exception has closed it, and
\* so has one that left with a parsed record
C8_Witness ==
    /\ pc = "v_return" /\ open_pages = 0
    /\ exit_path \in {"goto_error", "type_error", "bad_json", "no_payload"}

\* C9: every element of the list the comment harvester returns is a comment
\* record with a non-empty text
C9_HarvestReturnsComments ==
    pc = "c_return" =>
        \A k \in 1..Len(comments) : IsComment(comments[k]) /\ comments[k].text # <<>>

\* C10: the comment harvester returns at most max_comments entries
C10_HarvestWithinMaxComments ==
    pc = "c_return" => Len(comments) <= max_comments

\* C11 as stated: a node none of whose text strategies matches gives no
\* comment, whatever text the node itself has
C11_UnmatchedTextExcluded ==
    (pc = "comment_return" /\ ~Matched(element.sel_text)) => comment_data = None

\* C11: a node none of whose text strategies matches gives no comment when
\* its own text is empty or cannot be read, and otherwise gives a comment
\* whose text is the node's own text, stripped
C11_UnmatchedTextFallsBack ==
    (pc = "comment_return" /\ ~Matched(element.sel_text)) =>
        IF element.inner_text.m = "text" /\ element.inner_text.v # <<>>
        THEN comment_data # None /\ comment_data.text = Strip(element.inner_text.v)
        ELSE comment_data = None

\* no text strategy matched and the comment holds the node's own text
C11_Witness ==
    /\ pc = "comment_return"
    /\ ~Matched(element.sel_text)
    /\ element.inner_text = Text(<<" ", "y", "o">>)
    /\ comment_data # None
    /\ comment_data.text = <<"y", "o">>

TargetReached == Len(videos) >= max_videos
Stagnated == scroll_attempts >= max_scroll_attempts

\* C12: on a feed whose height stops changing after finitely many rounds the
\* scroll loop is left; it is left normally only once the target count is
\* reached or 20 rounds in a row saw no growth, and no round starts once
\* either holds
C12_ScrollLoopTerminates ==
    /\ <>(pc \notin {"scroll", "measure"})
    /\ [][(pc = "scroll" /\ (TargetReached \/ Stagnated)) => pc' # "measure"]_vars
    /\ [][(pc = "scroll" /\ ~(TargetReached \/ Stagnated)) =>
              (pc' = "measure" \/ (pc' = "done" /\ HasError(result')))]_vars
    /\ [](scroll_attempts <= max_scroll_attempts)

\* the loop has been left after 20 rounds in a row without growth, short of
\* the target count
C12_Witness ==
    /\ pc = "done" /\ ~HasError(result)
    /\ scroll_attempts = max_scroll_attempts
    /\ Len(videos) < max_videos
    /\ feed_growth = Finite(0)

\* a numeric prefix: digits with at most one point and at least one digit
IsNumeral(s) ==
    /\ \A k \in 1..Len(s) : s[k] \in Digits \cup {"."}
    /\ Cardinality({k \in 1..Len(s) : s[k] = "."}) <= 1
    /\ \E k \in 1..Len(s) : s[k] \in Digits
\* the numeral's value times factor, as numbers
TimesExactly(s, factor) ==
    (DigitsValue(SelectSeq(s, LAMBDA c : c \in Digits)) * factor)
        \div Pow10(Cardinality({k \in 1..Len(s) : \E j \in 1..(k - 1) : s[j] = "."}))
Front(s) == SubSeq(s, 1, Len(s) - 1)
HasSuffix(s, markers) == s # <<>> /\ s[Len(s)] \in markers /\ IsNumeral(Front(s))
\* the text is an abbreviated count or a plain integer, blanks around it aside
WellFormedCount(text) ==
    LET s == Strip(text)
    IN HasSuffix(s, {"K", "k", "M", "m"}) \/ (s # <<>> /\ \A k \in 1..Len(s) : s[k] \in Digits)

\* C13: a numeral followed by K or k gives the numeral's value times 1000,
\* followed by M or m times 1000000, and a text of digits gives its value,
\* blanks around the text aside
C13_AbbreviatedCounts ==
    pc = "count_return" =>
        LET s == Strip(count_str)
        IN /\ HasSuffix(s, {"K", "k"}) => count = TimesExactly(Front(s), 1000)
           /\ HasSuffix(s, {"M", "m"}) => count = TimesExactly(Front(s), 1000000)
           /\ (s # <<>> /\ \A k \in 1..Len(s) : s[k] \in Digits) => count = DigitsValue(s)

\* C14: a text that is neither an abbreviated count nor a plain integer (the
\* empty text, a marker with no numeral before it, both markers, other
\* text) gives 0
C14_MalformedCountIsZero ==
    (pc = "count_return" /\ ~WellFormedCount(count_str)) => count = 0

Counters == {"views", "likes", "comments", "shares"}
HasCounters(item) ==
    /\ "stats" \in DOMAIN item
    /\ \A f \in Counters :
          /\ f \in DOMAIN item.stats
          /\ item.stats[f].t = "int"
          /\ item.stats[f].v >= 0

\* C15: every item of a returned result has stats whose views, likes,
\* comments and shares are all present and are integers, none negative
C15_CountersAlwaysPresent ==
    (pc = "done" /\ ~HasError(result)) =>
        \A k \in 1..Len(result.videos) : HasCounters(result.videos[k])

\* C16: every item of a returned result carries a provenance value: a tag of
\* its own for an item of the embedded payload, 'html_scroll' for an item
\* collected by scrolling (and not replaced by a detail record)
C16_ProvenanceMatchesPath ==
    (pc = "done" /\ ~HasError(result)) =>
        \A k \in 1..Len(result.videos) :
            LET item == result.videos[k]
            IN /\ "scraped_via" \in DOMAIN item
               /\ path = "json" => item.scraped_via \notin {"html_scroll", "video_page"}
               /\ (path = "scroll" /\ ~detailed_scrape) => item.scraped_via = "html_scroll"

\* C17 as stated: the enriched item at each position has the provenance of
\* the collected item at that position
C17_SourcePreserved ==
    \A k \in 1..Len(detailed_videos) :
        detailed_videos[k].scraped_via = videos[k].scraped_via

\* C17: the enriched item at each position has the provenance of the
\* collected item when its visit failed, and that of the detail page
\* ('video_page') when its visit succeeded
C17_SourceKeptOnFailure ==
    /\ \A k \in 1..Len(detailed_videos) :
          detailed_videos[k].scraped_via =
              IF k \in failed THEN videos[k].scraped_via ELSE "video_page"
    /\ (pc = "done" /\ path = "scroll" /\ detailed_scrape /\ ~HasError(result)) =>
          \A k \in 1..Len(result.videos) :
              result.videos[k].scraped_via =
                  IF k \in failed THEN videos[k].scraped_via ELSE "video_page"

\* a result of two items, the first with the tag it was collected with after
\* its visit failed, the second with the tag of its detail record
C17_Witness ==
    /\ pc = "done" /\ ~HasError(result) /\ Len(result.videos) = 2
    /\ 1 \in failed /\ 2 \notin failed
    /\ videos[1].scraped_via = "html_scroll"
    /\ result.videos[1].scraped_via = "html_scroll"
    /\ result.videos[2].scraped_via = "video_page"

\* C18: a detail visit that fails (in its navigation, its payload or its
\* comment harvest) gives no error result; the session still visits every
\* collected item, in order, and returns one item per collected item, each
\* item whose own visit did not fail being its detail record
C18_FailureIsolated ==
    /\ visited # <<>> => ~HasError(result)
    /\ (pc = "done" /\ failed # {}) =>
          /\ Len(visited) = Len(videos)
          /\ Len(result.videos) = Len(videos)
          /\ \A k \in 1..Len(videos) :
                /\ visited[k] = videos[k].url
                /\ result.videos[k].url = videos[k].url
                /\ k \notin failed => result.videos[k].scraped_via = "video_page"

\* the first of two visits failed; the second was made and its detail
\* record is returned
C18_Witness ==
    /\ pc = "done" /\ result.returned /\ ~HasError(result)
    /\ failed = {1}
    /\ Len(visited) = 2 /\ visited[2] = videos[2].url
    /\ result.videos[2].scraped_via = "video_page"

\* C19: at most one detail page is open; a visit opens its page only when
\* none is open; the visits are made in the order of the collected items,
\* and the i-th navigation comes after the i-th delay
C19_VisitsSerialized ==
    /\ open_pages <= 1
    /\ pc = "v_new_page" => open_pages = 0
    /\ Len(visited) <= Len(videos)
    /\ \A k \in 1..Len(visited) : visited[k] = videos[k].url
    /\ pc \in {"v_new_page", "v_goto", "v_extract"} => Len(visited) = i
    /\ pc = "details" => Len(visited) = i - 1

\* the second visit is about to navigate: its delay has been taken and the
\* first visit's page is released
C19_Witness ==
    /\ pc = "v_goto" /\ i = 2
    /\ Len(visited) = 2
    /\ open_pages = 1

\* C20: no scroll round is made before the JSON attempt; the scroll loop
\* runs only when the JSON attempt gave no video, and always then; when it
\* gave one or more they are returned with no scroll round made
C20_ScrollIffJsonEmpty ==
    /\ pc \in {"goto", "refresh", "extract"} =>
          (path = "none" /\ videos = <<>> /\ scroll_attempts = 0)
    /\ pc \in {"scroll", "measure"} => (path = "scroll" /\ hashtag_info.videos = <<>>)
    /\ path = "json" =>
          /\ hashtag_info.videos # <<>>
          /\ videos = <<>> /\ scroll_attempts = 0
          /\ pc = "done" /\ result.videos = hashtag_info.videos
    /\ path = "none" => (pc \in {"goto", "refresh", "extract"} \/ HasError(result))

\* the JSON attempt gave a video: it is returned and no round was made
C20_Witness ==
    /\ pc = "done" /\ path = "json"
    /\ Len(result.videos) >= 1
    /\ videos = <<>> /\ scroll_attempts = 0

\* C21: the payload parsed is that of the first script, in document order,
\* that has a known id and a text that is not empty
C21_FirstNonEmptyContainer ==
    pc = "json_return" =>
        json_info = ExtractFromJson(FindScriptNonEmpty(document_scripts))

\* the payload the lookup found is a JSON document with a scope dict
FoundScope ==
    LET sd == FindScript(document_scripts)
    IN /\ sd.kind = "json"
       /\ IsDict(sd.data)
       /\ "__DEFAULT_SCOPE__" \in DOMAIN sd.data.d
       /\ IsDict(sd.data.d["__DEFAULT_SCOPE__"])
TheScope == FindScript(document_scripts).data.d["__DEFAULT_SCOPE__"]
\* an entry with a nested video object whose nested fields are dicts
WellFormedEntry(e) ==
    e.t = "dict" /\ "video" \in DOMAIN e.d /\ ~ParseVideoItemRaises(e.d)

\* C22: every well-formed entry with a nested video object, of every item
\* container of the scope, is in the videos of the result, whatever the
\* other entries are
C22_WellFormedEntriesKept ==
    (pc = "json_return" /\ FoundScope) =>
        \A c \in 1..Len(TheScope.pairs) :
            (IsItemKey(TheScope.pairs[c].k) /\ TheScope.pairs[c].v.t = "obj") =>
                \A n \in 1..Len(TheScope.pairs[c].v.pairs) :
                    LET e == TheScope.pairs[c].v.pairs[n].v
                    IN WellFormedEntry(e) => ParseVideoItem(e.d) \in Range(json_info.videos)

\* C23: the videos of the result are those the scan of the scope's item
\* containers gives, whatever the challenge section of the scope holds
C23_ItemScanApartFromMetadata ==
    (pc = "json_return" /\ FoundScope) => json_info.videos = ScanScope(TheScope.pairs)

\* C24: a scroll round adds one to scroll_attempts when the height it
\* measured after scrolling is the one it measured before (the feed's
\* height did not change in the round), and sets it to 0 otherwise; the
\* counter stays within 0..20
C24_StagnationCounterRule ==
    /\ [][(pc = "measure" /\ pc' = "scroll") =>
              scroll_attempts' = IF feed_growth' = feed_growth
                                 THEN scroll_attempts + 1 ELSE 0]_vars
    /\ [](scroll_attempts \in 0..max_scroll_attempts)

\* a round in which the height changed has been followed by one in which it
\* did not
C24_Witness ==
    /\ pc = "scroll"
    /\ scroll_attempts = 1
    /\ feed_growth = Finite(MaxGrowingRounds - 1)

\* the text of the first strategy of the list that gives a text that is not
\* empty, '' when none does
RECURSIVE FirstNonEmpty(_)
FirstNonEmpty(chain) ==
    IF chain = <<>> THEN <<>>
    ELSE IF Head(chain).m = "text" /\ Head(chain).v # <<>> THEN Head(chain).v
    ELSE FirstNonEmpty(Tail(chain))

\* C25: each field of a comment is what the first strategy of its list with
\* a non-empty result gave (a strategy that raises, matches nothing or gives
\* an empty text is passed over), and its default when there is none
C25_FirstNonEmptyStrategy ==
    (pc = "comment_return" /\ comment_data # None) =>
        /\ FirstNonEmpty(element.sel_text) # <<>> =>
               comment_data.text = Strip(FirstNonEmpty(element.sel_text))
        /\ comment_data.author =
               IF FirstNonEmpty(element.sel_username) # <<>>
               THEN Strip(FirstNonEmpty(element.sel_username))
               ELSE <<"U", "n", "k", "n", "o", "w", "n">>
        /\ comment_data.likes =
               IF FirstNonEmpty(element.sel_likes) # <<>>
               THEN ParseCount(FirstNonEmpty(element.sel_likes)) ELSE 0
        /\ comment_data.timestamp = Strip(FirstNonEmpty(element.sel_time))

\* C26: when the page has no comment icon the harvester returns the empty
\* list to scrape_video_details, which goes on with the parsed detail
\* record and adds no comments key to it; no error result is returned
C26_AbsentIconTolerated ==
    harvest_path = "no_icon" =>
        /\ pc \in {"c_return", "v_close", "v_return"}
        /\ comments = <<>>
        /\ exit_path = "parsed"
        /\ result = NoResult
        /\ detailed_info # None
        /\ detailed_info.scraped_via = "video_page"
        /\ "comments" \notin DOMAIN detailed_info

\* the visit of a page without a comment icon is about to return its detail
\* record, which has no comments key
C26_Witness ==
    /\ pc = "v_return"
    /\ harvest_path = "no_icon"
    /\ detailed_info # None
    /\ "comments" \notin DOMAIN detailed_info

\* C27: the comment-scroll loop makes at most 5 attempts and none once
\* max_comments nodes are held; an attempt, failed or not, adds one to the
\* count and replaces the nodes held only by a longer list; the harvester
\* is left
C27_CommentScrollBounded ==
    /\ [](comment_scroll_attempts <= max_scroll)
    /\ [][(pc = "c_scroll" /\ pc' = "c_scroll") =>
              /\ Len(comments) < max_comments
              /\ comment_scroll_attempts' = comment_scroll_attempts + 1
              /\ Len(comments') >= Len(comments)
              /\ comments' # comments => Len(comments') > Len(comments)]_vars
    /\ <>(pc \notin {"c_open", "c_scroll"})

\* the loop has used its 5 attempts with fewer than max_comments nodes held
C27_Witness ==
    /\ pc = "c_scroll"
    /\ comment_scroll_attempts = max_scroll
    /\ Len(comments) < max_comments

\* C28: the scroll loop is left on every feed page, one whose height changes
\* in every round while no new video link appears included: the session
\* comes to its result or to the visits of the collected videos
C28_ScrollEndsOnAnyFeed == <>(pc \in {"done", "details"})
====
